---- MODULE Spec2Model ----
(***************************************************************************)
(* Model of the interactive decision-tree modelling engine of mlviz:       *)
(*   - the bounded model cache          (services/model_cache.py)          *)
(*   - DecisionTreeService.train_model  (services/decision_tree_service.py)*)
(*   - cache key derivation             (ModelCacheService.generate_model_key) *)
(*   - tree conversion and prediction   (_convert_tree_to_node,            *)
(*                                       _predict_with_tree)               *)
(* Specifications:                                                         *)
(*   Spec      the cache service driven by arbitrary get/set/clear calls   *)
(*   SpecTrain concurrent train_model requests sharing the cache           *)
(*   SpecKey   generate_model_key applied to dicts in every field order    *)
(*   SpecTree  a fitted tree converted to a TreeNode, then used to predict *)
(***************************************************************************)
EXTENDS Integers, Sequences, FiniteSets, TLC

\* ------------------------------------------------------------------ bounds
\* largest settings.cache_max_size explored (the configured default is 100)
MaxCacheSize == 3
\* largest reading of datetime.now() explored
MaxTime == 2
\* number of distinct keys the callers of the cache service use
NumKeys == 4
\* number of concurrent train_model requests
NumRequests == 2
\* largest max_depth training parameter explored
MaxDepthParam == 2
\* number of rows of a training set
NumRows == 3
\* largest feature value of a training row (the smallest is 0)
MaxValue == 1
\* largest depth of a fitted tree
MaxTreeDepth == 2
\* number of rows of the dataset of the manual tree builder
ManualRows == 12
\* smallest max_thresholds a feature-stats request may carry (Field ge=10)
MinMaxThresholds == 10
\* number of rows of the datasets of a manual tree building session
SessionRows == 4
\* number of requests of a session
SessionCalls == 3

VARIABLES
    \* ---- ModelCacheService
    enabled,      \* self.enabled   (settings.cache_enabled)
    max_size,     \* self.max_size  (settings.cache_max_size)
    cache,        \* self._cache: the dict, as its items in insertion order
    clock,        \* the last reading of datetime.now()
    last,         \* the most recent call on the cache service and its outcome
    prev,         \* the set call that a get immediately followed, if last is such a get
    run,          \* the latest set calls, made in a row on pairwise distinct keys
                  \* (at most max_size + 1 of them): each one's key, and whether
                  \* the key was in the cache when the call was made
    \* ---- DecisionTreeService.train_model, one coroutine per request
    pc,           \* where each request is in train_model
    model_key,    \* local model_key
    response,     \* local response_data
    result,       \* what train_model returned
    hit,          \* whether the lookup of the call was a hit
    wasFresh,     \* whether, at the lookup, an earlier train_model call had stored
                  \* the key with no clear and no eviction of it since
    events,       \* calls made by the current train_model call, in order
    fresh,        \* keys stored by a train_model call and neither evicted nor cleared since
    racing,       \* requests that missed a key which another request has stored since
    lastStore,    \* the cache.set of train_model, if it is the step just taken
    \* ---- generate_model_key
    kin,          \* two (params, dataset) inputs
    kout,         \* the keys generated for them
    \* ---- fit, _convert_tree_to_node, _predict_with_tree
    phase,        \* how far the tree has come: trained, converted, predicted
    X_data,       \* the training rows
    y_data,       \* their labels
    feature_names,\* the names of the columns
    tree_,        \* model.tree_, the arrays of the fitted classifier
    tree_node,    \* the TreeNode the converter built
    predictions,  \* the class index predicted for each training row
    visited,      \* for each row, the nodes the predictor visited, root to leaf
    variant,      \* the tree with the feature_index of its Split nodes changed
    variant_predictions, \* the class index predicted for each row with variant
    trace_request,  \* the points and class_names of a POST /predict request
    trace_response, \* what the request was answered with
    convert_call,   \* a call of the converter: the names passed and what came back
    \* ---- ManualTreeService
    dataset_info,   \* the dataset: X, y, feature_names, class_names
    manual_request, \* the node-stats or feature-stats request received
    manual_response,\* the HTTP answer to it
    manual_locals,  \* the locals of calculate_feature_statistics when it
                    \* builds the histogram
    dataset_cache,  \* self._dataset_cache: its items in insertion order
    calls,          \* the requests of a session and their answers, in order
    frontier        \* the parent masks of the nodes the client has not split yet

cacheVars == <<enabled, max_size, cache, clock, last, prev, run>>
trainVars == <<pc, model_key, response, result, hit, wasFresh, events, fresh, racing,
               lastStore>>
keyVars == <<kin, kout>>
treeVars == <<phase, X_data, y_data, feature_names, tree_, tree_node, predictions,
              visited, variant, variant_predictions, trace_request, trace_response,
              convert_call>>
manualVars == <<dataset_info, manual_request, manual_response, manual_locals,
                dataset_cache, calls, frontier>>
vars == <<cacheVars, trainVars, keyVars, treeVars, manualVars>>

\* ------------------------------------------------------- Python values
\* Python None
NoneValue == [none |-> TRUE]

IsDict(data) == "dict" \in DOMAIN data

\* a truth test that takes every value for falsy
Truthy_never(data) == FALSE

\* bool(data): None and the empty dict are falsy
Truthy(data) ==
    /\ "none" \notin DOMAIN data
    /\ IsDict(data) => DOMAIN data.dict # {}

\* ---------------------------------------------- cache key derivation
\* A JSON-serialisable value is an atom, [atom |-> its JSON literal], or a
\* Python dict, [obj |-> items], the items being <<key, value>> pairs in the
\* dict's insertion order.
Atom(s) == [atom |-> s]
Obj(items) == [obj |-> items]
IsAtom(v) == "atom" \in DOMAIN v

\* The field names in use, in the order Python compares str (by code point).
CodePointOrder ==
    <<"X", "criterion", "dataset", "info", "max_depth", "n_samples", "name",
      "params", "test_size">>

KeyRank(k) == CHOOSE i \in 1..Len(CodePointOrder) : CodePointOrder[i] = k

KeyLess(a, b) == KeyRank(a) < KeyRank(b)

RECURSIVE InsertSorted(_, _)
InsertSorted(item, s) ==
    IF s = <<>> THEN <<item>>
    ELSE IF KeyLess(item[1], Head(s)[1]) THEN <<item>> \o s
    ELSE <<Head(s)>> \o InsertSorted(item, Tail(s))

\* a mis-sort: the items are left in insertion order (sort_keys dropped)
SortKeys_unsorted(items) == items

\* sort_keys=True: the items of one dict ordered by key
RECURSIVE SortKeys(_)
SortKeys(items) ==
    IF items = <<>> THEN <<>>
    ELSE InsertSorted(Head(items), SortKeys(Tail(items)))

\* json.dumps(v, sort_keys=True) as the sequence of its tokens; the keys are
\* sorted in every dict, at every nesting level
RECURSIVE dumps(_)
RECURSIVE dumpsItems(_)
dumps(v) ==
    IF IsAtom(v) THEN <<v.atom>>
    ELSE <<"{">> \o dumpsItems(SortKeys(v.obj)) \o <<"}">>

dumpsItems(items) ==
    IF items = <<>> THEN <<>>
    ELSE <<Head(items)[1], ":">> \o dumps(Head(items)[2])
         \o (IF Len(items) = 1 THEN <<>> ELSE <<",">>)
         \o dumpsItems(Tail(items))

\* ModelCacheService.generate_model_key: params is a dict (its items),
\* dataset a dict or None
generate_model_key(params, dataset) ==
    dumps(Obj(<< <<"params", Obj(params)>>, <<"dataset", dataset>> >>))

\* ---- inputs
Range(s) == {s[i] : i \in DOMAIN s}

\* every ordering of the items of a dict
Orderings(items) ==
    {[i \in DOMAIN items |-> items[f[i]]] :
        f \in {g \in [DOMAIN items -> DOMAIN items] : Range(g) = DOMAIN items}}

Depths == 1..MaxDepthParam
Criteria == {"gini", "entropy"}
DatasetNames == {"iris", "wine"}

\* DecisionTreeParameters.model_dump(), fields in declared order
ParamsDump(depth, criterion) ==
    << <<"max_depth", Atom(ToString(depth))>>, <<"criterion", Atom(criterion)>> >>

\* DatasetInfo.model_dump()
InfoDump(name) ==
    << <<"name", Atom(name)>>, <<"n_samples", Atom("150")>> >>

\* Dataset.model_dump(), fields in declared order, info nested
DatasetDump(name) ==
    << <<"X", Atom(name)>>, <<"info", Obj(InfoDump(name))>>,
       <<"test_size", Atom("0.25")>> >>

\* what train_model passes to generate_model_key: requests on the default
\* dataset, one for each depth
TrainInputs ==
    {[params |-> ParamsDump(d, "gini"), dataset |-> Obj(DatasetDump("iris"))] :
        d \in Depths}

ModelKeys == {generate_model_key(i.params, i.dataset) : i \in TrainInputs}

\* the same dicts with their fields in every order, at both nesting levels
DatasetOrderings(name) ==
    UNION {Orderings(<< <<"X", Atom(name)>>, <<"info", Obj(io)>>,
                        <<"test_size", Atom("0.25")>> >>) :
              io \in Orderings(InfoDump(name))}

KeyInputs ==
    {[params |-> p, dataset |-> d] :
        p \in UNION {Orderings(ParamsDump(dp, c)) : dp \in Depths, c \in Criteria},
        d \in {Atom("null")}
              \cup {Obj(items) : items \in UNION {DatasetOrderings(n) : n \in DatasetNames}}}

\* the logical content of a value: a dict is the set of its items, whatever
\* their order
RECURSIVE Logical(_)
Logical(v) ==
    IF IsAtom(v) THEN v
    ELSE [fields |-> {<<it[1], Logical(it[2])>> : it \in Range(v.obj)}]

SameLogical(a, b) ==
    /\ Logical(Obj(a.params)) = Logical(Obj(b.params))
    /\ Logical(a.dataset) = Logical(b.dataset)

\* ------------------------------------------------- ModelCacheService
\* self._cache is a Python dict: a sequence of [key, data] items in insertion
\* order, no key twice.
CacheKeys(c) == {c[i].key : i \in DOMAIN c}

\* dict.get(key): the data under key, or None
DictGet(c, key) ==
    IF key \in CacheKeys(c)
    THEN c[CHOOSE i \in DOMAIN c : c[i].key = key].data
    ELSE NoneValue

\* a get that ignores the enabled flag
get_unguarded(c, en, key) == DictGet(c, key)

\* ModelCacheService.get
get(c, en, key) ==
    IF ~en THEN NoneValue ELSE DictGet(c, key)

\* an eviction that is one entry late (> for >=)
AtCapacity_late(c, max) == Len(c) > max

\* len(self._cache) >= self.max_size
AtCapacity(c, max) == Len(c) >= max

\* an eviction that drops the newest entry instead of the oldest
EvictOldest_newest(c) == SubSeq(c, 1, Len(c) - 1)

\* del self._cache[next(iter(self._cache))]: the first-inserted item goes
EvictOldest(c) == Tail(c)

\* a stamp that mutates nothing else but forgets the payload's fields
Stamp_dropfields(data, now) ==
    IF IsDict(data) THEN [dict |-> ("cached_at" :> now)] ELSE data

\* data.copy() with data["cached_at"] = now, for a dict; anything else as is
Stamp(data, now) ==
    IF IsDict(data)
    THEN [dict |-> ("cached_at" :> now) @@ data.dict]
    ELSE data

\* an assignment that always appends, leaving an older item of the key behind
DictAssign_append(c, key, data) == Append(c, [key |-> key, data |-> data])

\* self._cache[key] = data: a present key keeps its place, a new one goes last
DictAssign(c, key, data) ==
    IF key \in CacheKeys(c)
    THEN [i \in DOMAIN c |->
            IF c[i].key = key THEN [key |-> key, data |-> data] ELSE c[i]]
    ELSE Append(c, [key |-> key, data |-> data])

\* a set that ignores the enabled flag
set_unguarded(c, en, max, key, data, now) ==
    IF AtCapacity(c, max) /\ c = <<>>
    THEN [raised |-> TRUE, cache |-> c]
    ELSE [raised |-> FALSE,
          cache |-> DictAssign(IF AtCapacity(c, max) THEN EvictOldest(c) ELSE c,
                               key, Stamp(data, now))]

\* ModelCacheService.set: the cache after the call, and whether the call
\* raised (next() on an empty dict, when max_size <= 0)
set(c, en, max, key, data, now) ==
    IF ~en THEN [raised |-> FALSE, cache |-> c]
    ELSE IF AtCapacity(c, max) /\ c = <<>>
    THEN [raised |-> TRUE, cache |-> c]
    ELSE [raised |-> FALSE,
          cache |-> DictAssign(IF AtCapacity(c, max) THEN EvictOldest(c) ELSE c,
                               key, Stamp(data, now))]

\* ---- the cache service under arbitrary calls
\* payloads a caller may pass to set: dicts, without and with a cached_at
\* field of their own, and a value that is not a dict
Payloads ==
    {[dict |-> [tree |-> 1]],
     [dict |-> [tree |-> 2, cached_at |-> 0]],
     [raw |-> "blob"]}

\* keys a caller may use: any str
KeyNames == <<"k1", "k2", "k3", "k4", "k5", "k6", "k7", "k8">>

ServiceKeys == {KeyNames[i] : i \in 1..NumKeys}

NoCall == [op |-> "none", key |-> "", data |-> NoneValue, raised |-> FALSE, at |-> 0]

\* s without its calls up to and including the one on key, if there is one:
\* what is left are the calls since, all on other keys
DropThrough(s, key) ==
    IF \E i \in DOMAIN s : s[i].key = key
    THEN SubSeq(s, (CHOOSE i \in DOMAIN s : s[i].key = key) + 1, Len(s))
    ELSE s

\* the last n calls of an uninterrupted run of set calls
Window(s, n) == IF Len(s) > n THEN SubSeq(s, Len(s) - n + 1, Len(s)) ELSE s

Requests == 1..NumRequests

NoStore == [by |-> 0, later |-> FALSE, raised |-> FALSE]

TrainIdle ==
    /\ pc = [r \in Requests |-> "idle"]
    /\ model_key = [r \in Requests |-> <<>>]
    /\ response = [r \in Requests |-> NoneValue]
    /\ result = [r \in Requests |-> NoneValue]
    /\ hit = [r \in Requests |-> FALSE]
    /\ wasFresh = [r \in Requests |-> FALSE]
    /\ events = [r \in Requests |-> <<>>]
    /\ fresh = {}
    /\ racing = {}
    /\ lastStore = NoStore

KeyIdle ==
    /\ kin = <<>>
    /\ kout = <<>>

TreeIdle ==
    /\ phase = "none"
    /\ X_data = <<>>
    /\ y_data = <<>>
    /\ feature_names = <<>>
    /\ tree_ = NoneValue
    /\ tree_node = NoneValue
    /\ predictions = <<>>
    /\ visited = <<>>
    /\ variant = NoneValue
    /\ variant_predictions = <<>>
    /\ trace_request = NoneValue
    /\ trace_response = NoneValue
    /\ convert_call = NoneValue

ManualIdle ==
    /\ dataset_info = NoneValue
    /\ manual_request = NoneValue
    /\ manual_response = NoneValue
    /\ manual_locals = NoneValue
    /\ dataset_cache = <<>>
    /\ calls = <<>>
    /\ frontier = <<>>

\* ModelCacheService.__init__ under any settings
CacheInit ==
    /\ enabled \in BOOLEAN
    /\ max_size \in 0..MaxCacheSize
    /\ cache = <<>>
    /\ clock = 1
    /\ last = NoCall
    /\ prev = NoCall
    /\ run = <<>>

Init ==
    /\ CacheInit
    /\ TrainIdle
    /\ KeyIdle
    /\ TreeIdle
    /\ ManualIdle

\* a get that moves the entry it hits to the end of the dict (access order)
CacheGet_touch(key) ==
    /\ last' = [op |-> "get", key |-> key, data |-> get(cache, enabled, key),
                raised |-> FALSE, at |-> clock]
    /\ prev' = IF last.op = "set" THEN last ELSE NoCall
    /\ run' = <<>>
    /\ cache' = IF enabled /\ key \in CacheKeys(cache)
                THEN Append(SelectSeq(cache, LAMBDA e : e.key # key),
                            [key |-> key, data |-> DictGet(cache, key)])
                ELSE cache
    /\ UNCHANGED <<enabled, max_size, clock>>

\* await cache_service.get(key)
CacheGet(key) ==
    /\ last' = [op |-> "get", key |-> key, data |-> get(cache, enabled, key),
                raised |-> FALSE, at |-> clock]
    /\ prev' = IF last.op = "set" THEN last ELSE NoCall
    /\ run' = <<>>
    /\ UNCHANGED <<enabled, max_size, cache, clock>>

\* await cache_service.set(key, data), datetime.now() reading t
CacheSet(key, data, t) ==
    LET r == set(cache, enabled, max_size, key, data, t) IN
    /\ cache' = r.cache
    /\ clock' = t
    /\ last' = [op |-> "set", key |-> key, data |-> data,
                raised |-> r.raised, at |-> t]
    /\ prev' = NoCall
    /\ run' = Window(Append(DropThrough(run, key),
                            [key |-> key, present |-> key \in CacheKeys(cache)]),
                     max_size + 1)
    /\ UNCHANGED <<enabled, max_size>>

\* await cache_service.clear()
CacheClear ==
    /\ cache' = <<>>
    /\ last' = [op |-> "clear", key |-> "", data |-> NoneValue,
                raised |-> FALSE, at |-> clock]
    /\ prev' = NoCall
    /\ run' = <<>>
    /\ UNCHANGED <<enabled, max_size, clock>>

Next ==
    \/ \E key \in ServiceKeys : CacheGet(key) /\ UNCHANGED <<trainVars, keyVars, treeVars, manualVars>>
    \/ \E key \in ServiceKeys, data \in Payloads, t \in clock..MaxTime :
          CacheSet(key, data, t) /\ UNCHANGED <<trainVars, keyVars, treeVars, manualVars>>
    \/ CacheClear /\ UNCHANGED <<trainVars, keyVars, treeVars, manualVars>>

Spec == Init /\ [][Next]_vars

\* ------------------------------------------------ claims on the cache
Distinct(s) == \A i, j \in DOMAIN s : i # j => s[i] # s[j]

RunKeys == [i \in DOMAIN run |-> run[i].key]

\* C1 as stated: with the cache enabled and max_size >= 1, once the last
\* max_size + 1 calls were set calls on pairwise distinct keys, the first of
\* those keys is gone (get misses) and the other max_size keys are all still
\* retrievable.
C1_FirstOfDistinctRunEvicted ==
    (enabled /\ max_size >= 1 /\ Len(run) = max_size + 1 /\ Distinct(RunKeys)) =>
        /\ get(cache, enabled, run[1].key) = NoneValue
        /\ \A i \in 2..Len(run) : get(cache, enabled, run[i].key) # NoneValue

\* C1 as amended: the same, provided each of the max_size + 1 set calls
\* inserted its key, the key not being in the cache when the call was made (as
\* in a run that starts on an empty cache).
C1_FirstInsertedEvicted ==
    (enabled /\ max_size >= 1 /\ Len(run) = max_size + 1 /\ Distinct(RunKeys)
        /\ \A i \in DOMAIN run : ~run[i].present) =>
        /\ get(cache, enabled, run[1].key) = NoneValue
        /\ \A i \in 2..Len(run) : get(cache, enabled, run[i].key) # NoneValue
        /\ CacheKeys(cache) = {run[i].key : i \in 2..Len(run)}

C1_Witness ==
    /\ enabled
    /\ max_size = MaxCacheSize
    /\ Len(run) = max_size + 1
    /\ Distinct(RunKeys)
    /\ \A i \in DOMAIN run : ~run[i].present

\* C2 as stated: with the cache enabled, a get that immediately follows a set
\* of the same key (one that returned) returns the very payload passed to set.
C2_SetThenGetSamePayload ==
    (enabled /\ last.op = "get" /\ prev.op = "set" /\ ~prev.raised
        /\ prev.key = last.key) =>
        last.data = prev.data

\* C2 as amended: with the cache enabled and max_size >= 1, the get returns,
\* for a dict payload, a dict with the payload's fields and values plus a
\* cached_at field holding the insertion time (replacing a cached_at of the
\* payload's own); a payload that is not a dict is returned as it was passed.
C2_SetThenGetStamped ==
    (enabled /\ max_size >= 1
        /\ last.op = "get" /\ prev.op = "set" /\ prev.key = last.key) =>
        IF IsDict(prev.data)
        THEN /\ IsDict(last.data)
             /\ DOMAIN last.data.dict = DOMAIN prev.data.dict \cup {"cached_at"}
             /\ last.data.dict["cached_at"] = prev.at
             /\ \A f \in DOMAIN prev.data.dict \ {"cached_at"} :
                    last.data.dict[f] = prev.data.dict[f]
        ELSE last.data = prev.data

C2_Witness ==
    /\ enabled
    /\ max_size >= 1
    /\ last.op = "get" /\ prev.op = "set" /\ prev.key = last.key
    /\ IsDict(prev.data)
    /\ "cached_at" \in DOMAIN prev.data.dict
    /\ last.data.dict["cached_at"] # prev.data.dict["cached_at"]

\* the items of c under another key than key, in order
Without(c, key) == SelectSeq(c, LAMBDA e : e.key # key)

\* C27: eviction follows insertion order, not access order: a get leaves the
\* cache contents and their order as they were, and a set made right after a
\* get on a full cache still evicts the entry inserted earliest, every other
\* entry staying in place.
C27_GetKeepsEvictionOrder ==
    [][/\ last'.op = "get" => cache' = cache
       /\ (last.op = "get" /\ last'.op = "set" /\ enabled /\ max_size >= 1
             /\ Len(cache) >= max_size)
          => Without(cache', last'.key) = Without(Tail(cache), last'.key)]_vars

\* a get has just hit the earliest-inserted entry of a full cache
C27_Witness ==
    /\ enabled
    /\ max_size >= 2
    /\ Len(cache) = max_size
    /\ last.op = "get"
    /\ last.key = cache[1].key
    /\ last.data = cache[1].data

\* C29: a set on a key already in the cache replaces that key's payload only:
\* no other key is removed and the number of entries stays the same, also
\* when the cache holds max_size entries.
C29_SetPresentKeepsOthers ==
    [][(last'.op = "set" /\ last'.key \in CacheKeys(cache))
          => /\ CacheKeys(cache') = CacheKeys(cache)
             /\ Len(cache') = Len(cache)]_vars

\* C3: after any sequence of get, set and clear calls, whatever the keys, the
\* cache never holds more than max_size entries.
C3_Bounded == Len(cache) <= max_size

C3_Witness ==
    /\ max_size >= 1
    /\ Len(cache) = max_size
    /\ last.op = "set"
    /\ Len(run) = max_size + 1
    /\ \E i \in DOMAIN run : run[i].present

\* C4: with the cache disabled the cache stays empty whatever is set, and
\* every get misses.
C4_DisabledAlwaysMisses ==
    ~enabled =>
        /\ cache = <<>>
        /\ last.op = "get" => last.data = NoneValue
        /\ \A key \in ServiceKeys : get(cache, enabled, key) = NoneValue

C4_Witness ==
    /\ ~enabled
    /\ last.op = "get"
    /\ prev.op = "set"
    /\ prev.key = last.key

\* ------------------------------------ DecisionTreeService.train_model
\* Every await of train_model is a point where the event loop may run another
\* request. ModelCacheService.get, .set and .clear contain no await: each runs
\* as one step.

\* cached_result["cached"] = True
MarkCached(data) == [dict |-> ("cached" :> TRUE) @@ data.dict]

\* the dict object held under key is changed where it is
InPlace(c, key, data) ==
    [i \in DOMAIN c |->
        IF c[i].key = key THEN [key |-> key, data |-> data] ELSE c[i]]

\* response_data of a freshly trained model; the tree and the scores are a
\* function of the key
ResponseData(key, now) ==
    [dict |-> [success |-> TRUE, model_key |-> key, cached |-> FALSE,
               created_at |-> now, tree |-> "tree_node"]]

\* train_model is called: the dataset is resolved and the key derived
TrainBegin(r, inp) ==
    /\ pc[r] \in {"idle", "done", "failed"}
    /\ pc' = [pc EXCEPT ![r] = "lookup"]
    /\ model_key' = [model_key EXCEPT
                       ![r] = generate_model_key(inp.params, inp.dataset)]
    /\ response' = [response EXCEPT ![r] = NoneValue]
    /\ result' = [result EXCEPT ![r] = NoneValue]
    /\ hit' = [hit EXCEPT ![r] = FALSE]
    /\ wasFresh' = [wasFresh EXCEPT ![r] = FALSE]
    /\ events' = [events EXCEPT ![r] = <<>>]
    /\ racing' = racing \ {r}
    /\ lastStore' = NoStore
    /\ UNCHANGED <<fresh, cacheVars>>

\* if cached_result := await self.cache.get(model_key): mark it and return it
TrainLookup(r) ==
    LET cached_result == get(cache, enabled, model_key[r]) IN
    /\ pc[r] = "lookup"
    /\ events' = [events EXCEPT ![r] = Append(@, "get")]
    /\ wasFresh' = [wasFresh EXCEPT ![r] = model_key[r] \in fresh]
    /\ IF Truthy(cached_result)
       THEN /\ cache' = InPlace(cache, model_key[r], MarkCached(cached_result))
            /\ result' = [result EXCEPT ![r] = MarkCached(cached_result)]
            /\ hit' = [hit EXCEPT ![r] = TRUE]
            /\ pc' = [pc EXCEPT ![r] = "done"]
       ELSE /\ pc' = [pc EXCEPT ![r] = "fit"]
            /\ UNCHANGED <<cache, result, hit>>
    /\ lastStore' = NoStore
    /\ UNCHANGED <<enabled, max_size, clock, last, prev, run, model_key,
                   response, fresh, racing>>

\* the dataset is prepared, the classifier fitted, the tree converted and
\* response_data built, datetime.now() reading t
TrainFit(r, t) ==
    /\ pc[r] = "fit"
    /\ response' = [response EXCEPT ![r] = ResponseData(model_key[r], t)]
    /\ clock' = t
    /\ events' = [events EXCEPT ![r] = @ \o <<"fit", "convert">>]
    /\ pc' = [pc EXCEPT ![r] = "store"]
    /\ lastStore' = NoStore
    /\ UNCHANGED <<enabled, max_size, cache, last, prev, run, model_key,
                   result, hit, wasFresh, fresh, racing>>

\* await self.cache.set(model_key, response_data); return response_data
TrainStore(r, t) ==
    LET s == set(cache, enabled, max_size, model_key[r], response[r], t)
        evicted == CacheKeys(cache) \ CacheKeys(s.cache)
    IN
    /\ pc[r] = "store"
    /\ cache' = s.cache
    /\ clock' = t
    /\ events' = [events EXCEPT ![r] = Append(@, "set")]
    /\ lastStore' = [by |-> r, later |-> r \in racing, raised |-> s.raised]
    /\ racing' = (racing \ {r})
                 \cup {q \in Requests \ {r} :
                          pc[q] \in {"fit", "store"} /\ model_key[q] = model_key[r]}
    /\ IF s.raised
       THEN /\ pc' = [pc EXCEPT ![r] = "failed"]
            /\ UNCHANGED <<result, fresh>>
       ELSE /\ pc' = [pc EXCEPT ![r] = "done"]
            /\ result' = [result EXCEPT ![r] = response[r]]
            /\ fresh' = (fresh \cup {model_key[r]}) \ evicted
    /\ UNCHANGED <<enabled, max_size, last, prev, run, model_key, response,
                   hit, wasFresh>>

\* DELETE /cache: await dt_service.cache.clear()
ClearCache ==
    /\ cache' = <<>>
    /\ fresh' = {}
    /\ lastStore' = NoStore
    /\ UNCHANGED <<enabled, max_size, clock, last, prev, run, pc, model_key,
                   response, result, hit, wasFresh, events, racing>>

NextTrain ==
    \/ \E r \in Requests, inp \in TrainInputs :
          TrainBegin(r, inp) /\ UNCHANGED <<keyVars, treeVars, manualVars>>
    \/ \E r \in Requests : TrainLookup(r) /\ UNCHANGED <<keyVars, treeVars, manualVars>>
    \/ \E r \in Requests, t \in clock..MaxTime : TrainFit(r, t) /\ UNCHANGED <<keyVars, treeVars, manualVars>>
    \/ \E r \in Requests, t \in clock..MaxTime : TrainStore(r, t) /\ UNCHANGED <<keyVars, treeVars, manualVars>>
    \/ ClearCache /\ UNCHANGED <<keyVars, treeVars, manualVars>>

SpecTrain == Init /\ [][NextTrain]_vars

\* ---------------------------------------------- claims on train_model
\* C5: for as long as a key stays in the cache, no step changes the payload
\* held under it; a payload goes only by eviction or clear. (A set on the key
\* itself, which puts a new payload there, is not counted as a change.)
C5_EntriesImmutable ==
    [][\A key \in CacheKeys(cache) \cap CacheKeys(cache') :
          \/ DictGet(cache', key) = DictGet(cache, key)
          \/ lastStore'.by # 0 /\ model_key[lastStore'.by] = key]_vars

CountKey(c, key) == Cardinality({i \in DOMAIN c : c[i].key = key})

\* the dict is a well-formed bounded map of stamped responses, each under the
\* key it was trained for
CacheConsistent ==
    /\ \A i, j \in DOMAIN cache : i # j => cache[i].key # cache[j].key
    /\ Len(cache) <= max_size
    /\ \A i \in DOMAIN cache :
          /\ IsDict(cache[i].data)
          /\ "cached_at" \in DOMAIN cache[i].data.dict
          /\ cache[i].data.dict.model_key = cache[i].key

\* the later set of a race has just run, and the cache holds exactly one entry
\* for its key, the stamped copy of the response passed to it
LaterSetWon ==
    /\ CountKey(cache, model_key[lastStore.by]) = 1
    /\ DictGet(cache, model_key[lastStore.by])
          = Stamp(response[lastStore.by], clock)

\* C7 as stated: no interleaving leaves the cache inconsistent, and when two
\* requests for one key both miss, both train and both call set, the cache
\* then holds exactly one entry for the key, with the payload of the later set.
C7_LastWriteWinsAlways ==
    /\ CacheConsistent
    /\ lastStore.later => LaterSetWon

\* C7 as amended: the same, for a cache that is enabled with max_size >= 1.
C7_LastWriteWins ==
    /\ CacheConsistent
    /\ (lastStore.later /\ enabled /\ max_size >= 1) => LaterSetWon

C7_Witness ==
    /\ enabled
    /\ max_size >= 1
    /\ lastStore.later
    /\ \E q \in Requests \ {lastStore.by} :
          /\ pc[q] = "done"
          /\ ~hit[q]
          /\ model_key[q] = model_key[lastStore.by]
          /\ events[q] = <<"get", "fit", "convert", "set">>
          /\ events[lastStore.by] = <<"get", "fit", "convert", "set">>
          /\ response[q] # response[lastStore.by]
          /\ DictGet(cache, model_key[q]).dict.created_at
                = response[lastStore.by].dict.created_at

\* what C8 says of one train_model call
TrainFlow(r) ==
    \* the lookup comes first
    /\ events[r] # <<>> => Head(events[r]) = "get"
    \* the call returns a result
    /\ pc[r] # "failed"
    \* a hit: the cached result, marked, and neither trainer nor set
    /\ (pc[r] = "done" /\ hit[r]) =>
          /\ events[r] = <<"get">>
          /\ result[r].dict.cached = TRUE
          /\ result[r].dict.model_key = model_key[r]
          /\ "cached_at" \in DOMAIN result[r].dict
    \* a miss: trained, converted, set once, result marked cached=false
    /\ (pc[r] = "done" /\ ~hit[r]) =>
          /\ events[r] = <<"get", "fit", "convert", "set">>
          /\ result[r].dict.cached = FALSE
          /\ result[r].dict.model_key = model_key[r]
    \* a key trained before, not cleared nor evicted since, is a hit
    /\ (pc[r] \notin {"idle", "lookup"} /\ wasFresh[r]) => hit[r]

\* C8 as stated: every train_model call follows the flow, whatever the
\* settings of the cache.
C8_ServedFromCacheAlways == \A r \in Requests : TrainFlow(r)

\* C8 as amended: every train_model call follows the flow when the cache is
\* enabled with max_size >= 1.
C8_ServedFromCache ==
    (enabled /\ max_size >= 1) => \A r \in Requests : TrainFlow(r)

C8_Witness ==
    /\ enabled
    /\ max_size >= 1
    /\ \E r, q \in Requests :
          /\ r # q
          /\ pc[r] = "done" /\ hit[r] /\ wasFresh[r]
          /\ pc[q] = "done" /\ ~hit[q]
          /\ model_key[q] = model_key[r]

\* --------------------------------------- trained trees and their rows
\* A dataset is a feature matrix X (rows 0..NumRows-1, two columns, values
\* small enough to be exact in float32 and float64 alike) and a label y per row.
Rows == 0..(NumRows - 1)
FeatureColumns == {0, 1}
Classes == {0, 1}
FeatureValues == 0..MaxValue

\* Dataset.feature_names as a client may send them: absent, or one name for
\* each column; the validator compares lengths only, so a name may repeat
FeatureNameLists == {<<>>, <<"a", "b">>, <<"a", "a">>}

\* Dataset.get_feature_names: the names given, or generated defaults
get_feature_names(names) ==
    IF names # <<>> THEN names
    ELSE [c \in 1..Cardinality(FeatureColumns) |-> "feature_" \o ToString(c - 1)]

\* tree_.value[node]: shape (1, n_classes), the class counts of the node's rows
ClassCounts(y, idx) ==
    << [c \in 1..Cardinality(Classes) |-> Cardinality({i \in idx : y[i] = c - 1})] >>

\* The trees DecisionTreeClassifier.fit may grow on the rows idx: a node is
\* split only while depth allows and it holds more than one class, on a
\* column and a threshold that leave both children non-empty; rows with
\* value <= threshold go left.
RECURSIVE Fit(_, _, _, _)
Fit(X, y, idx, depth) ==
    {[leaf |-> TRUE, idx |-> idx]}
    \cup
    IF depth < MaxTreeDepth /\ \E i, j \in idx : y[i] # y[j]
    THEN UNION {
            LET L == {i \in idx : X[i][f] <= t} IN
            IF L = {} \/ L = idx THEN {}
            ELSE {[leaf |-> FALSE, idx |-> idx, feature |-> f, threshold |-> t,
                   l |-> a, r |-> b] :
                     a \in Fit(X, y, L, depth + 1),
                     b \in Fit(X, y, idx \ L, depth + 1)} :
            f \in FeatureColumns, t \in FeatureValues}
    ELSE {}

RECURSIVE NodeCount(_)
NodeCount(t) == IF t.leaf THEN 1 ELSE 1 + NodeCount(t.l) + NodeCount(t.r)

\* the nodes of a grown tree in the order sklearn numbers them (depth first,
\* left before right), id being the number of the root; a leaf has both
\* children -1 and no feature (-2)
RECURSIVE NodeArray(_, _, _)
NodeArray(t, y, id) ==
    IF t.leaf
    THEN <<[children_left |-> -1, children_right |-> -1, feature |-> -2,
            threshold |-> -2, n_node_samples |-> Cardinality(t.idx),
            value |-> ClassCounts(y, t.idx)]>>
    ELSE <<[children_left |-> id + 1, children_right |-> id + 1 + NodeCount(t.l),
            feature |-> t.feature, threshold |-> t.threshold,
            n_node_samples |-> Cardinality(t.idx),
            value |-> ClassCounts(y, t.idx)]>>
         \o NodeArray(t.l, y, id + 1)
         \o NodeArray(t.r, y, id + 1 + NodeCount(t.l))

\* model.tree_: parallel arrays indexed by node id, from 0
TreeArrays(t, y) ==
    LET a == NodeArray(t, y, 0)
        ids == 0..(Len(a) - 1)
    IN [children_left |-> [n \in ids |-> a[n + 1].children_left],
        children_right |-> [n \in ids |-> a[n + 1].children_right],
        feature |-> [n \in ids |-> a[n + 1].feature],
        threshold |-> [n \in ids |-> a[n + 1].threshold],
        n_node_samples |-> [n \in ids |-> a[n + 1].n_node_samples],
        value |-> [n \in ids |-> a[n + 1].value]]

\* ------------------------------------------------ _convert_tree_to_node
\* an index range that misses the last row
Arange_short(n) == [k \in 1..(n - 1) |-> k - 1]

\* np.arange(n)
Arange(n) == [k \in 1..n |-> k - 1]

\* a selection that keeps every element whatever the mask
Compress_keepall(a, mask) == a

\* a[mask]: the elements of a where mask is True, in order
RECURSIVE Compress(_, _)
Compress(a, mask) ==
    IF a = <<>> THEN <<>>
    ELSE (IF Head(mask) THEN <<Head(a)>> ELSE <<>>) \o Compress(Tail(a), Tail(mask))

\* a left mask by strict comparison (< for <=)
LeftMask_strict(feature_values, threshold) ==
    [k \in DOMAIN feature_values |-> feature_values[k] < threshold]

\* left_mask = feature_values <= threshold
LeftMask(feature_values, threshold) ==
    [k \in DOMAIN feature_values |-> feature_values[k] <= threshold]

\* _create_histogram_data, without its bins and per-class counts
create_histogram_data(sample_indices, feature_idx, X, y, threshold) ==
    IF Len(sample_indices) = 0 THEN NoneValue
    ELSE [feature_values |->
              [k \in DOMAIN sample_indices |-> X[sample_indices[k]][feature_idx]],
          class_labels |-> [k \in DOMAIN sample_indices |-> y[sample_indices[k]]],
          threshold |-> threshold,
          total_samples |-> Len(sample_indices)]

\* _convert_tree_to_node. TreeNode(type=...) builds the node of that type.
\* Each node also records sample_indices, the argument of the call that built
\* it (the sample set threaded to the node), which the TreeNode does not keep.
\* impurity, a float copied from the trainer, is left out.
RECURSIVE convert_tree_to_node(_, _, _, _, _, _)
convert_tree_to_node(tree, node_id, names, X, y, sample_indices) ==
    LET left_child == tree.children_left[node_id]
        right_child == tree.children_right[node_id]
    IN
    IF left_child = right_child
    THEN [type |-> "leaf",
          samples |-> tree.n_node_samples[node_id],
          value |-> tree.value[node_id],
          sample_indices |-> sample_indices]
    ELSE
      LET feature_idx == tree.feature[node_id]
          feature_name == IF names # <<>> THEN names[feature_idx + 1]
                          ELSE "feature_" \o ToString(feature_idx)
          threshold == tree.threshold[node_id]
          feature_values ==
              [k \in DOMAIN sample_indices |-> X[sample_indices[k]][feature_idx]]
          left_mask == LeftMask(feature_values, threshold)
          left_indices == Compress(sample_indices, left_mask)
          right_indices ==
              Compress(sample_indices, [k \in DOMAIN left_mask |-> ~left_mask[k]])
      IN [type |-> "split",
          feature |-> feature_name,
          feature_index |-> feature_idx,
          threshold |-> threshold,
          samples |-> tree.n_node_samples[node_id],
          value |-> tree.value[node_id],
          histogram_data |->
              create_histogram_data(sample_indices, feature_idx, X, y, threshold),
          left |-> convert_tree_to_node(tree, left_child, names, X, y, left_indices),
          right |-> convert_tree_to_node(tree, right_child, names, X, y, right_indices),
          sample_indices |-> sample_indices]

\* --------------------------------------------------- _predict_with_tree
\* list.index(x): the first position holding x, from 0
Index(names, x) ==
    (CHOOSE i \in DOMAIN names :
        names[i] = x /\ \A j \in 1..(i - 1) : names[j] # x) - 1

\* np.argmax(a): the first position of the largest element, from 0
ArgMax(a) ==
    (CHOOSE i \in DOMAIN a :
        /\ \A j \in DOMAIN a : a[j] <= a[i]
        /\ \A j \in 1..(i - 1) : a[j] < a[i]) - 1

Last(s) == s[Len(s)]

\* a traversal that takes the column from feature_index when the node has one
RECURSIVE Traverse_byindex(_, _, _)
Traverse_byindex(node, sample, names) ==
    IF node.type = "split"
    THEN LET feature_idx == IF "feature_index" \in DOMAIN node
                            THEN node.feature_index
                            ELSE Index(names, node.feature) IN
         <<node>> \o Traverse_byindex(IF sample[feature_idx] <= node.threshold
                                      THEN node.left ELSE node.right,
                                      sample, names)
    ELSE <<node>>

\* the nodes the while loop visits for one sample: from the root down to the
\* leaf it stops at. Every feature of a converted tree is one of the names, so
\* index() finds it.
RECURSIVE Traverse(_, _, _)
Traverse(node, sample, names) ==
    IF node.type = "split"
    THEN LET feature_idx == Index(names, node.feature) IN
         <<node>> \o Traverse(IF sample[feature_idx] <= node.threshold
                              THEN node.left ELSE node.right,
                              sample, names)
    ELSE <<node>>

\* _predict_with_tree: the predicted class index of each row of X
predict_with_tree(node, X, names) ==
    [i \in DOMAIN X |-> ArgMax(Last(Traverse(node, X[i], names)).value[1])]

\* ---- fit, convert, predict on the training rows
\* a dataset sent by a client and the tree the classifier fitted on it
TreeInit ==
    /\ phase = "trained"
    /\ X_data \in [Rows -> [FeatureColumns -> FeatureValues]]
    /\ y_data \in [Rows -> Classes]
    /\ feature_names \in {get_feature_names(names) : names \in FeatureNameLists}
    /\ tree_ \in {TreeArrays(t, y_data) : t \in Fit(X_data, y_data, Rows, 0)}
    /\ tree_node = NoneValue
    /\ predictions = <<>>
    /\ visited = <<>>
    /\ variant = NoneValue
    /\ variant_predictions = <<>>
    /\ trace_request = NoneValue
    /\ trace_response = NoneValue
    /\ convert_call = NoneValue
    /\ enabled = TRUE
    /\ max_size = MaxCacheSize
    /\ cache = <<>>
    /\ clock = 1
    /\ last = NoCall
    /\ prev = NoCall
    /\ run = <<>>
    /\ TrainIdle
    /\ KeyIdle
    /\ ManualIdle

\* tree_node = self._convert_tree_to_node(model.tree_, 0, feature_names, X, y)
ConvertTree ==
    /\ phase = "trained"
    /\ tree_node' = convert_tree_to_node(tree_, 0, feature_names, X_data, y_data,
                                         Arange(NumRows))
    /\ phase' = "converted"
    /\ UNCHANGED <<X_data, y_data, feature_names, tree_, predictions, visited,
                   variant, variant_predictions, trace_request, trace_response,
                   convert_call>>

\* self._predict_with_tree(tree_node, X, feature_names) on the training rows
PredictRows ==
    /\ phase = "converted"
    /\ predictions' = predict_with_tree(tree_node, X_data, feature_names)
    /\ visited' = [i \in Rows |-> Traverse(tree_node, X_data[i], feature_names)]
    /\ phase' = "predicted"
    /\ UNCHANGED <<X_data, y_data, feature_names, tree_, tree_node, variant,
                   variant_predictions, trace_request, trace_response,
                   convert_call>>

\* the same tree as a client may send it: SplitNode.feature_index is optional
\* and unvalidated, so it may be absent (as in a manual tree) or name another
\* column than feature does
RECURSIVE Reindexed(_, _)
Reindexed(node, mode) ==
    IF node.type # "split" THEN node
    ELSE LET n == [node EXCEPT !.left = Reindexed(@, mode),
                               !.right = Reindexed(@, mode)]
         IN IF mode = "absent"
            THEN [f \in DOMAIN n \ {"feature_index"} |-> n[f]]
            ELSE [n EXCEPT !.feature_index = 1 - @]

\* self._predict_with_tree(tree, X, feature_names) on such a tree
PredictVariant(mode) ==
    /\ phase = "predicted"
    /\ variant' = Reindexed(tree_node, mode)
    /\ variant_predictions' = predict_with_tree(variant', X_data, feature_names)
    /\ phase' = "repredicted"
    /\ UNCHANGED <<X_data, y_data, feature_names, tree_, tree_node, predictions,
                   visited, trace_request, trace_response,
                   convert_call>>

\* ---- single-point prediction with trace. The service method the endpoint
\* calls is not in this source tree; it is written here from the predictor
\* contract: while the node is a Split, look the row's value up by feature
\* name, compare it to the threshold with <=, append "left" or "right" and
\* descend; on the Leaf append "stop".

\* a trace that ends at the leaf without saying so
RECURSIVE Instructions_nostop(_, _)
Instructions_nostop(node, points) ==
    IF node.type = "split"
    THEN IF points[node.feature] <= node.threshold
         THEN <<"left">> \o Instructions_nostop(node.left, points)
         ELSE <<"right">> \o Instructions_nostop(node.right, points)
    ELSE <<>>

RECURSIVE Instructions(_, _)
Instructions(node, points) ==
    IF node.type = "split"
    THEN IF points[node.feature] <= node.threshold
         THEN <<"left">> \o Instructions(node.left, points)
         ELSE <<"right">> \o Instructions(node.right, points)
    ELSE <<"stop">>

\* the node reached from node by a list of "left" and "right"
RECURSIVE Descend(_, _)
Descend(node, instr) ==
    IF instr = <<>> THEN node
    ELSE Descend(IF Head(instr) = "left" THEN node.left ELSE node.right, Tail(instr))

\* the features of the Split nodes the row visits that the points do not give
RECURSIVE MissingFeatures(_, _)
MissingFeatures(node, points) ==
    IF node.type # "split" THEN {}
    ELSE IF node.feature \notin DOMAIN points THEN {node.feature}
    ELSE MissingFeatures(IF points[node.feature] <= node.threshold
                         THEN node.left ELSE node.right, points)

\* predict_with_trace: MissingFeature on a lookup miss; else the argmax class
\* of the leaf, its name, its share of the leaf's value and the instructions
predict_with_instructions(tree, points, class_names) ==
    IF MissingFeatures(tree, points) # {}
    THEN [error |-> "MissingFeature", status_code |-> 400]
    ELSE LET instructions == Instructions(tree, points)
             leaf == Descend(tree, SubSeq(instructions, 1, Len(instructions) - 1))
             index == ArgMax(leaf.value[1])
         IN [predicted_class |-> IF class_names = NoneValue THEN ToString(index)
                                 ELSE class_names[index + 1],
             predicted_class_index |-> index,
             confidence |-> <<leaf.value[1][index + 1],
                              leaf.value[1][1] + leaf.value[1][2]>>,
             instructions |-> instructions]

\* request.points: a value for some of the feature names
PointMaps ==
    UNION {[names -> FeatureValues] : names \in SUBSET Range(feature_names)}

\* POST /predict with the converted tree
PredictWithInstructions(points, class_names) ==
    /\ phase = "converted"
    /\ trace_request' = [points |-> points, class_names |-> class_names]
    /\ trace_response' = predict_with_instructions(tree_node, points, class_names)
    /\ phase' = "traced"
    /\ UNCHANGED <<X_data, y_data, feature_names, tree_, tree_node, predictions,
                   visited, variant, variant_predictions, convert_call>>

\* ---- the converter called with a name list of any length
\* feature_names as a caller of _convert_tree_to_node may pass them
CallerNameLists == {<<>>, <<"a">>, <<"a", "b">>, <<"a", "b", "c">>}

\* feature_names[feature_idx] raises IndexError at some split node: the list
\* is not empty and is too short for the column the node splits on
RECURSIVE NameIndexError(_, _, _)
NameIndexError(tree, node_id, names) ==
    LET left_child == tree.children_left[node_id]
        right_child == tree.children_right[node_id]
    IN IF left_child = right_child THEN FALSE
       ELSE \/ names # <<>> /\ tree.feature[node_id] + 1 > Len(names)
            \/ NameIndexError(tree, left_child, names)
            \/ NameIndexError(tree, right_child, names)

\* self._convert_tree_to_node(model.tree_, 0, names, X, y)
ConvertCall(names) ==
    /\ phase = "trained"
    /\ convert_call' =
          [feature_names |-> names,
           result |-> IF NameIndexError(tree_, 0, names)
                      THEN [error |-> "IndexError"]
                      ELSE convert_tree_to_node(tree_, 0, names, X_data, y_data,
                                                Arange(NumRows))]
    /\ phase' = "called"
    /\ UNCHANGED <<X_data, y_data, feature_names, tree_, tree_node, predictions,
                   visited, variant, variant_predictions, trace_request,
                   trace_response>>

NextTree ==
    \/ ConvertTree /\ UNCHANGED <<cacheVars, trainVars, keyVars, manualVars>>
    \/ PredictRows /\ UNCHANGED <<cacheVars, trainVars, keyVars, manualVars>>
    \/ \E mode \in {"absent", "other"} :
          PredictVariant(mode) /\ UNCHANGED <<cacheVars, trainVars, keyVars, manualVars>>
    \/ \E points \in PointMaps, class_names \in {NoneValue, <<"c0", "c1">>} :
          PredictWithInstructions(points, class_names)
          /\ UNCHANGED <<cacheVars, trainVars, keyVars, manualVars>>
    \/ \E names \in CallerNameLists :
          ConvertCall(names) /\ UNCHANGED <<cacheVars, trainVars, keyVars, manualVars>>

SpecTree == TreeInit /\ [][NextTree]_vars

\* ------------------------------------- claims on conversion and prediction
RECURSIVE Nodes(_)
Nodes(n) ==
    IF n.type = "split" THEN {n} \cup Nodes(n.left) \cup Nodes(n.right) ELSE {n}

\* C9: at every Split node, a row whose feature value equals the threshold is
\* handed to the left child and a row with a greater value to the right child,
\* both when the converter partitions the node's sample set and when the
\* predictor walks the tree.
C9_EqualGoesLeft ==
    /\ phase \in {"converted", "predicted"} =>
          \A n \in Nodes(tree_node) :
             n.type = "split" =>
                \A i \in Range(n.sample_indices) :
                   /\ X_data[i][n.feature_index] = n.threshold =>
                         /\ i \in Range(n.left.sample_indices)
                         /\ i \notin Range(n.right.sample_indices)
                   /\ X_data[i][n.feature_index] > n.threshold =>
                         /\ i \in Range(n.right.sample_indices)
                         /\ i \notin Range(n.left.sample_indices)
    /\ phase = "predicted" =>
          \A i \in Rows : \A k \in 1..(Len(visited[i]) - 1) :
             LET n == visited[i][k]
                 v == X_data[i][Index(feature_names, n.feature)]
             IN /\ v = n.threshold => visited[i][k + 1] = n.left
                /\ v > n.threshold => visited[i][k + 1] = n.right

C9_Witness ==
    /\ phase = "predicted"
    /\ tree_node.type = "split"
    /\ tree_node.left # tree_node.right
    /\ \E i, j \in Rows :
          /\ X_data[i][tree_node.feature_index] = tree_node.threshold
          /\ X_data[j][tree_node.feature_index] > tree_node.threshold
          /\ X_data[i][Index(feature_names, tree_node.feature)] = tree_node.threshold
          /\ X_data[j][Index(feature_names, tree_node.feature)] > tree_node.threshold
          /\ visited[i][2] = tree_node.left
          /\ visited[j][2] = tree_node.right

\* C11: the predictor gives every row the same class whether the Split nodes
\* of the tree carry their feature_index, carry none, or carry one that names
\* another column than feature does.
C11_IndexNeverInspected ==
    phase = "repredicted" => variant_predictions = predictions

C11_Witness ==
    /\ phase = "repredicted"
    /\ variant.type = "split"
    /\ "feature_index" \in DOMAIN variant
    /\ variant.feature_index # Index(feature_names, variant.feature)
    /\ \E i \in Rows :
          /\ X_data[i][variant.feature_index] > variant.threshold
          /\ X_data[i][Index(feature_names, variant.feature)] <= variant.threshold
          /\ variant.left.value # variant.right.value

\* C12: the instruction list of a traced prediction has one "left" or "right"
\* for each Split node visited from the root, in visit order, then one "stop"
\* at the Leaf: its length is the depth of the reached leaf plus one, and
\* "stop" is its last element and no other.
C12_InstructionsEndWithStop ==
    (phase = "traced" /\ "instructions" \in DOMAIN trace_response) =>
        LET instr == trace_response.instructions
            n == Len(instr)
        IN /\ n >= 1
           /\ instr[n] = "stop"
           /\ \A k \in 1..(n - 1) :
                 /\ instr[k] \in {"left", "right"}
                 /\ LET at == Descend(tree_node, SubSeq(instr, 1, k - 1)) IN
                    /\ at.type = "split"
                    /\ instr[k] = "left"
                          <=> trace_request.points[at.feature] <= at.threshold
           /\ Descend(tree_node, SubSeq(instr, 1, n - 1)).type = "leaf"

C12_Witness ==
    /\ phase = "traced"
    /\ "instructions" \in DOMAIN trace_response
    /\ Len(trace_response.instructions) = 3
    /\ trace_response.instructions[1] # trace_response.instructions[2]

\* C15: convert fails with a configuration error, producing no tree, whenever
\* the length of feature_names differs from the number of columns of X.
C15_MismatchRejected ==
    (phase = "called"
       /\ Len(convert_call.feature_names) # Cardinality(FeatureColumns))
    => "error" \in DOMAIN convert_call.result

\* C25: during conversion the sample set of the root is the full index range,
\* and at every Split node the index subsets passed to the children are
\* disjoint, together hold exactly the indices of the node's own sample set,
\* every left index has X[i, feature_index] <= threshold and every right
\* index has X[i, feature_index] > threshold.
C25_SampleSetsPartitioned ==
    phase \in {"converted", "predicted"} =>
       /\ tree_node.sample_indices = Arange(NumRows)
       /\ \A n \in Nodes(tree_node) :
             n.type = "split" =>
                LET L == Range(n.left.sample_indices)
                    R == Range(n.right.sample_indices)
                IN /\ L \cap R = {}
                   /\ L \cup R = Range(n.sample_indices)
                   /\ Cardinality(L) = Len(n.left.sample_indices)
                   /\ Cardinality(R) = Len(n.right.sample_indices)
                   /\ \A i \in L : X_data[i][n.feature_index] <= n.threshold
                   /\ \A i \in R : X_data[i][n.feature_index] > n.threshold

\* a Split node below the root partitions a sample set smaller than the dataset
C25_Witness ==
    /\ phase = "converted"
    /\ \E n \in Nodes(tree_node) :
          /\ n.type = "split"
          /\ n # tree_node
          /\ Range(n.sample_indices) # Rows
          /\ n.left.sample_indices # <<>>
          /\ n.right.sample_indices # <<>>

\* C26: every Split node of a converted tree has left.samples + right.samples
\* = samples, and the samples of every node is the size of the sample set
\* threaded to it during conversion.
C26_SampleCountsAddUp ==
    phase \in {"converted", "predicted"} =>
       \A n \in Nodes(tree_node) :
          /\ n.samples = Len(n.sample_indices)
          /\ n.type = "split" => n.left.samples + n.right.samples = n.samples

C26_Witness ==
    /\ phase = "converted"
    /\ tree_node.type = "split"
    /\ tree_node.samples = NumRows
    /\ \E child \in {tree_node.left, tree_node.right} :
          child.type = "split" /\ child.samples = 2

\* C10: predicting the training rows with the converted tree gives, for every
\* row, the class with the highest value in the leaf the row lands in, and
\* that leaf is the one whose sample set held the row during conversion.
C10_RoundTrip ==
    phase = "predicted" =>
        \A i \in Rows :
           LET leaf == Last(visited[i]) IN
           /\ \A c \in DOMAIN leaf.value[1] :
                 leaf.value[1][c] <= leaf.value[1][predictions[i] + 1]
           /\ i \in Range(leaf.sample_indices)

\* ======================================================================
\* Manual split statistics (services/manual_tree_service.py) behind
\* POST /manual/node-stats and POST /manual/feature-stats
\* ======================================================================

\* ---- floats. The values met here are ratios of small integers, kept exact
\* as <<numerator, denominator>> in lowest terms with a positive denominator.
RECURSIVE GCD(_, _)
GCD(a, b) == IF b = 0 THEN a ELSE GCD(b, a % b)

Abs(a) == IF a < 0 THEN -a ELSE a

Rat(n, d) ==
    LET g == GCD(Abs(n), d) IN IF n = 0 THEN <<0, 1>> ELSE <<n \div g, d \div g>>

Whole(n) == <<n, 1>>
RatAdd(a, b) == Rat(a[1] * b[2] + b[1] * a[2], a[2] * b[2])
RatSub(a, b) == Rat(a[1] * b[2] - b[1] * a[2], a[2] * b[2])
RatMul(a, b) == Rat(a[1] * b[1], a[2] * b[2])
RatLess(a, b) == a[1] * b[2] < b[1] * a[2]
RatLeq(a, b) == a[1] * b[2] <= b[1] * a[2]

\* ---- the dataset as _load_dataset caches it
ManualIndex == 0..(ManualRows - 1)

\* X: column "a" holds a different value in every row, column "b" the same
\* value in four rows running
ManualX == [i \in ManualIndex |-> [c \in FeatureColumns |-> IF c = 0 THEN i ELSE i \div 4]]

\* y: class 1 from some row on, or classes alternating from row to row
ManualLabels ==
    {[i \in ManualIndex |-> IF i >= k THEN 1 ELSE 0] : k \in 0..ManualRows}
    \cup {[i \in ManualIndex |-> i % 2]}

ManualDatasets ==
    {[X |-> ManualX, y |-> y, feature_names |-> <<"a", "b">>,
      class_names |-> <<"c0", "c1">>] : y \in ManualLabels}

\* ---- requests
\* parent_samples_mask: Optional[List[int]], None for the root
RootMask == [none |-> TRUE]
ListMask(s) == [list |-> s]

ParentMasks ==
    {RootMask, ListMask(<<>>)}
    \cup {ListMask([k \in 1..(hi - lo + 1) |-> lo + k - 1]) :
            lo \in ManualIndex, hi \in ManualIndex}
    \cup {ListMask(s) : s \in {<<-1>>, <<ManualRows>>, <<0, -ManualRows>>,
                              <<-ManualRows - 1>>, <<0, 0>>, <<2, 1>>}}

\* request.feature: a name of the dataset or not
RequestFeatures == {"a", "b", "z"}

\* request.threshold
NodeThresholds == {Rat(k, 2) : k \in -1..5}

\* ---- exceptions
Raise(type, detail) == [raised |-> type, detail |-> detail]
Raised(v) == "raised" \in DOMAIN v

\* ---- impurity and class distribution
RECURSIVE SumSquares(_)
SumSquares(counts) ==
    IF counts = <<>> THEN 0
    ELSE Head(counts) * Head(counts) + SumSquares(Tail(counts))

\* Counter(y_labels)[idx] for idx in range(len(class_names))
LabelCounts(y_labels, class_names) ==
    [k \in DOMAIN class_names |->
        Cardinality({j \in DOMAIN y_labels : y_labels[j] = k - 1})]

\* _calculate_gini: 0.0 for no labels, else 1 - sum(p ** 2)
calculate_gini(y_labels, class_names) ==
    IF Len(y_labels) = 0 THEN Whole(0)
    ELSE RatSub(Whole(1),
                Rat(SumSquares(LabelCounts(y_labels, class_names)),
                    Len(y_labels) * Len(y_labels)))

\* _get_class_distribution: two empty dicts for no labels, else a count and a
\* probability for every class name, listed in the order of class_names
get_class_distribution(y_labels, class_names) ==
    IF Len(y_labels) = 0 THEN <<<<>>, <<>>>>
    ELSE LET counts == LabelCounts(y_labels, class_names) IN
         <<counts, [k \in DOMAIN counts |-> Rat(counts[k], Len(y_labels))]>>

\* _create_node_statistics with criterion "gini"
create_node_statistics(y_labels, class_names) ==
    [samples |-> Len(y_labels),
     impurity |-> calculate_gini(y_labels, class_names),
     class_distribution |-> get_class_distribution(y_labels, class_names)[1],
     class_probabilities |-> get_class_distribution(y_labels, class_names)[2]]

\* ---- sample selection
\* a root that misses the last row
SamplesMask_short(mask, n) == IF mask = RootMask THEN Arange(n - 1) ELSE mask.list

\* samples_mask: np.arange(len(X)) for the root, else np.array(mask)
SamplesMask(mask, n) == IF mask = RootMask THEN Arange(n) ELSE mask.list

\* X[samples_mask] raises IndexError: np.array([]) has dtype float64, which
\* cannot index; an index outside [-n, n) is out of bounds
MaskIndexError(mask, n) ==
    /\ mask # RootMask
    /\ \/ mask.list = <<>>
       \/ \E k \in DOMAIN mask.list : mask.list[k] \notin (-n)..(n - 1)

\* the row an index selects: numpy counts a negative index from the end
RowOf(i, n) == IF i < 0 THEN i + n ELSE i

\* ---- the histogram of the manual service
SeqMin(s) == CHOOSE v \in Range(s) : \A w \in Range(s) : v <= w
SeqMax(s) == CHOOSE v \in Range(s) : \A w \in Range(s) : w <= v

\* ManualTreeService._create_histogram_data: empty for no values; one bin
\* of width 0.2 when all values are equal; otherwise the test
\* "thresholds is not None" reads a name that is neither a parameter, a local
\* nor a global of the module, and raises NameError
manual_create_histogram_data(X_values, y_labels, threshold) ==
    IF Len(X_values) = 0
    THEN [feature_values |-> <<>>, class_labels |-> <<>>, bins |-> <<>>,
          counts_by_class |-> <<>>, threshold |-> threshold, total_samples |-> 0]
    ELSE IF SeqMin(X_values) = SeqMax(X_values)
    THEN [feature_values |-> X_values,
          class_labels |-> y_labels,
          bins |-> <<RatSub(Whole(SeqMin(X_values)), Rat(1, 10)),
                     RatAdd(Whole(SeqMin(X_values)), Rat(1, 10))>>,
          counts_by_class |->
              [c \in Range(y_labels) |->
                  <<Cardinality({j \in DOMAIN y_labels : y_labels[j] = c})>>],
          threshold |-> threshold,
          total_samples |-> Len(X_values)]
    ELSE Raise("NameError", "name 'thresholds' is not defined")

\* ---- calculate_node_statistics
\* a split whose weighted impurity is the plain mean of the children's
SplitStatistics_unweighted(parent_stats, left_stats, right_stats) ==
    LET weighted_impurity ==
            RatMul(Rat(1, 2), RatAdd(left_stats.impurity, right_stats.impurity))
    IN [parent_stats |-> parent_stats,
        left_stats |-> left_stats,
        right_stats |-> right_stats,
        information_gain |-> RatSub(parent_stats.impurity, weighted_impurity),
        weighted_impurity |-> weighted_impurity]

\* weighted_impurity and information_gain of a split, 0.0 for no samples
SplitStatistics(parent_stats, left_stats, right_stats) ==
    LET n_samples == parent_stats.samples
        weighted_impurity ==
            IF n_samples = 0 THEN Whole(0)
            ELSE RatAdd(RatMul(Rat(left_stats.samples, n_samples), left_stats.impurity),
                        RatMul(Rat(right_stats.samples, n_samples), right_stats.impurity))
    IN [parent_stats |-> parent_stats,
        left_stats |-> left_stats,
        right_stats |-> right_stats,
        information_gain |-> IF n_samples = 0 THEN Whole(0)
                             ELSE RatSub(parent_stats.impurity, weighted_impurity),
        weighted_impurity |-> weighted_impurity]

\* a split that sends equal values right
SplitMask_strict(feature_values, threshold) ==
    [k \in DOMAIN feature_values |-> RatLess(Whole(feature_values[k]), threshold)]

\* left_mask = feature_values <= threshold
SplitMask(feature_values, threshold) ==
    [k \in DOMAIN feature_values |-> RatLeq(Whole(feature_values[k]), threshold)]

\* a lookup that falls back to the first column for an unknown name
FeatureLookup_default(names, feature) ==
    IF feature \in Range(names) THEN Index(names, feature) ELSE 0

\* feature_names.index(request.feature); -1 stands for the ValueError raised
FeatureLookup(names, feature) ==
    IF feature \in Range(names) THEN Index(names, feature) ELSE -1

calculate_node_statistics(info, request) ==
    LET n == Cardinality(DOMAIN info.X)
        feature_idx == FeatureLookup(info.feature_names, request.feature)
        samples_mask == SamplesMask(request.parent_samples_mask, n)
        y_node == [k \in DOMAIN samples_mask |-> info.y[RowOf(samples_mask[k], n)]]
        feature_values ==
            [k \in DOMAIN samples_mask |-> info.X[RowOf(samples_mask[k], n)][feature_idx]]
        left_mask == SplitMask(feature_values, request.threshold)
        right_mask == [k \in DOMAIN left_mask |-> ~left_mask[k]]
        histogram_data ==
            manual_create_histogram_data(feature_values, y_node, request.threshold)
    IN
    IF feature_idx = -1 THEN Raise("ValueError", "not found in dataset")
    ELSE IF MaskIndexError(request.parent_samples_mask, n)
    THEN Raise("IndexError", "samples_mask")
    ELSE IF Raised(histogram_data) THEN histogram_data
    ELSE [feature |-> request.feature,
          feature_index |-> feature_idx,
          threshold |-> request.threshold,
          split_stats |->
              SplitStatistics(create_node_statistics(y_node, info.class_names),
                              create_node_statistics(Compress(y_node, left_mask),
                                                     info.class_names),
                              create_node_statistics(Compress(y_node, right_mask),
                                                     info.class_names)),
          histogram_data |-> histogram_data,
          left_samples_mask |-> Compress(samples_mask, left_mask),
          right_samples_mask |-> Compress(samples_mask, right_mask)]

\* ---- the endpoints: ValueError becomes HTTP 400, any other exception 500
Answer(outcome) ==
    IF ~Raised(outcome) THEN [status_code |-> 200, body |-> outcome]
    ELSE IF outcome.raised = "ValueError"
    THEN [status_code |-> 400, error |-> outcome.raised, detail |-> outcome.detail]
    ELSE [status_code |-> 500, error |-> outcome.raised, detail |-> outcome.detail]

ManualInit ==
    /\ dataset_info \in ManualDatasets
    /\ dataset_cache = <<>>
    /\ calls = <<>>
    /\ frontier = <<>>
    /\ manual_request = NoneValue
    /\ manual_response = NoneValue
    /\ manual_locals = NoneValue
    /\ enabled = TRUE
    /\ max_size = MaxCacheSize
    /\ cache = <<>>
    /\ clock = 1
    /\ last = NoCall
    /\ prev = NoCall
    /\ run = <<>>
    /\ TrainIdle
    /\ KeyIdle
    /\ TreeIdle

\* POST /manual/node-stats
NodeStats(request) ==
    /\ manual_request = NoneValue
    /\ manual_request' = request
    /\ manual_response' = Answer(calculate_node_statistics(dataset_info, request))
    /\ UNCHANGED <<dataset_info, manual_locals, dataset_cache, calls, frontier>>

\* ---- calculate_feature_statistics
\* np.unique(values): the distinct values in ascending order
RECURSIVE SortedInts(_)
SortedInts(S) ==
    IF S = {} THEN <<>>
    ELSE LET least == CHOOSE v \in S : \A w \in S : v <= w
         IN <<least>> \o SortedInts(S \ {least})

\* sorted(list(set(values))) for floats
RECURSIVE SortedRats(_)
SortedRats(S) ==
    IF S = {} THEN <<>>
    ELSE LET least == CHOOSE v \in S : \A w \in S : RatLeq(v, w)
         IN <<least>> \o SortedRats(S \ {least})

\* split_points: (unique_values[i] + unique_values[i + 1]) / 2 for each i
Midpoints(unique_values) ==
    [i \in 1..(Len(unique_values) - 1) |->
        Rat(unique_values[i] + unique_values[i + 1], 2)]

\* np.percentile(a, np.linspace(0, 100, m)) of an ascending list a, by linear
\* interpolation: the k-th percentile sits at position k * (len(a) - 1) / (m - 1)
Percentiles(a, m) ==
    [j \in 1..m |->
        LET pos == (j - 1) * (Len(a) - 1)
            lower == pos \div (m - 1)
            part == pos % (m - 1)
        IN IF part = 0 THEN a[lower + 1]
           ELSE RatAdd(a[lower + 1],
                       RatMul(RatSub(a[lower + 2], a[lower + 1]), Rat(part, m - 1)))]

\* the candidate thresholds kept: all of them, or max_thresholds percentiles
\* of them with duplicates removed
SplitPoints(unique_values, max_thresholds) ==
    LET split_points == Midpoints(unique_values) IN
    IF Len(split_points) > max_thresholds
    THEN SortedRats(Range(Percentiles(split_points, max_thresholds)))
    ELSE split_points

\* the entry of threshold_stats_list for one threshold
ThresholdStatistics(threshold, samples_mask, feature_values, y_node, class_names) ==
    LET left_mask == SplitMask(feature_values, threshold)
        right_mask == [k \in DOMAIN left_mask |-> ~left_mask[k]]
        split_stats ==
            SplitStatistics(create_node_statistics(y_node, class_names),
                            create_node_statistics(Compress(y_node, left_mask),
                                                   class_names),
                            create_node_statistics(Compress(y_node, right_mask),
                                                   class_names))
    IN [threshold |-> threshold,
        information_gain |-> split_stats.information_gain,
        split_stats |-> split_stats,
        left_samples_mask |-> Compress(samples_mask, left_mask),
        right_samples_mask |-> Compress(samples_mask, right_mask)]

\* max(range(len(l)), key=gain): the first index with the highest gain
BestIndex(threshold_stats_list) ==
    (CHOOSE i \in DOMAIN threshold_stats_list :
        /\ \A j \in DOMAIN threshold_stats_list :
              RatLeq(threshold_stats_list[j].information_gain,
                     threshold_stats_list[i].information_gain)
        /\ \A j \in 1..(i - 1) :
              RatLess(threshold_stats_list[j].information_gain,
                      threshold_stats_list[i].information_gain)) - 1

\* the locals of calculate_feature_statistics when it calls
\* _create_histogram_data; None if it raised before
FeatureStatsLocals(info, request) ==
    LET n == Cardinality(DOMAIN info.X)
        feature_idx == FeatureLookup(info.feature_names, request.feature)
        samples_mask == SamplesMask(request.parent_samples_mask, n)
        y_node == [k \in DOMAIN samples_mask |-> info.y[RowOf(samples_mask[k], n)]]
        feature_values ==
            [k \in DOMAIN samples_mask |-> info.X[RowOf(samples_mask[k], n)][feature_idx]]
        unique_values == SortedInts(Range(feature_values))
        split_points == SplitPoints(unique_values, request.max_thresholds)
        threshold_stats_list ==
            [k \in DOMAIN split_points |->
                ThresholdStatistics(split_points[k], samples_mask, feature_values,
                                    y_node, info.class_names)]
        best_idx == BestIndex(threshold_stats_list)
    IN
    IF \/ feature_idx = -1
       \/ MaskIndexError(request.parent_samples_mask, n)
       \/ Len(unique_values) < 2
    THEN NoneValue
    ELSE [feature_idx |-> feature_idx,
          feature_values |-> feature_values,
          y_node |-> y_node,
          unique_values |-> unique_values,
          threshold_stats_list |-> threshold_stats_list,
          best_idx |-> best_idx,
          best_threshold |-> threshold_stats_list[best_idx + 1].threshold]

calculate_feature_statistics(info, request) ==
    LET n == Cardinality(DOMAIN info.X)
        feature_idx == FeatureLookup(info.feature_names, request.feature)
        samples_mask == SamplesMask(request.parent_samples_mask, n)
        feature_values ==
            [k \in DOMAIN samples_mask |-> info.X[RowOf(samples_mask[k], n)][feature_idx]]
        at == FeatureStatsLocals(info, request)
        histogram_data ==
            manual_create_histogram_data(at.feature_values, at.y_node, at.best_threshold)
    IN
    IF feature_idx = -1 THEN Raise("ValueError", "not found in dataset")
    ELSE IF MaskIndexError(request.parent_samples_mask, n)
    THEN Raise("IndexError", "samples_mask")
    ELSE IF Cardinality(Range(feature_values)) < 2
    THEN Raise("ValueError", "has only one unique value, cannot split")
    ELSE IF Raised(histogram_data) THEN histogram_data
    ELSE [feature |-> request.feature,
          feature_index |-> feature_idx,
          thresholds |-> at.threshold_stats_list,
          best_threshold |-> at.best_threshold,
          best_threshold_index |-> at.best_idx,
          feature_range |-> <<SeqMin(feature_values), SeqMax(feature_values)>>,
          histogram_data |-> histogram_data,
          total_unique_values |-> Len(at.unique_values),
          returned_threshold_count |-> Len(at.threshold_stats_list)]

\* request.max_thresholds: an int from 10 to 500
MaxThresholdsChoices == MinMaxThresholds..(MinMaxThresholds + 1)

\* POST /manual/feature-stats
FeatureStats(request) ==
    /\ manual_request = NoneValue
    /\ manual_request' = request
    /\ manual_response' = Answer(calculate_feature_statistics(dataset_info, request))
    /\ manual_locals' = FeatureStatsLocals(dataset_info, request)
    /\ UNCHANGED <<dataset_info, dataset_cache, calls, frontier>>

NextManual ==
    \/ \E feature \in RequestFeatures, threshold \in NodeThresholds,
          mask \in ParentMasks :
          NodeStats([op |-> "node_stats", feature |-> feature,
                     threshold |-> threshold, parent_samples_mask |-> mask,
                     criterion |-> "gini"])
          /\ UNCHANGED <<cacheVars, trainVars, keyVars, treeVars>>
    \/ \E feature \in RequestFeatures, mask \in ParentMasks,
          max_thresholds \in MaxThresholdsChoices :
          FeatureStats([op |-> "feature_stats", feature |-> feature,
                        parent_samples_mask |-> mask, criterion |-> "gini",
                        max_thresholds |-> max_thresholds])
          /\ UNCHANGED <<cacheVars, trainVars, keyVars, treeVars>>

SpecManual == ManualInit /\ [][NextManual]_vars

\* C13: node_stats and feature_stats called with a feature name that is not in
\* the dataset's feature-name list are answered with the unknown-feature error
\* as bad input (the ValueError "not found in dataset", HTTP 400), whatever
\* the mask, and the answer carries no statistics and no masks.
C13_UnknownFeatureRejected ==
    (manual_request # NoneValue
       /\ manual_request.feature \notin Range(dataset_info.feature_names))
    => /\ manual_response.status_code = 400
       /\ manual_response.error = "ValueError"
       /\ manual_response.detail = "not found in dataset"
       /\ "body" \notin DOMAIN manual_response
       /\ manual_locals = NoneValue

\* node_stats is asked for an unknown feature with a mask that would not
\* select rows
C13_Witness ==
    /\ manual_request # NoneValue
    /\ manual_request.op = "node_stats"
    /\ manual_request.feature \notin Range(dataset_info.feature_names)
    /\ MaskIndexError(manual_request.parent_samples_mask, ManualRows)
    /\ manual_response.status_code = 400

\* the request names a feature of the dataset
KnownFeature ==
    /\ manual_request # NoneValue
    /\ manual_request.feature \in Range(dataset_info.feature_names)

\* the sample set of the request: every index of its mask is a row of X
SampleSet ==
    IF manual_request.parent_samples_mask = RootMask THEN ManualIndex
    ELSE Range(manual_request.parent_samples_mask.list)

\* the values the feature takes on the sample set
NodeValues ==
    {dataset_info.X[i][Index(dataset_info.feature_names, manual_request.feature)] :
        i \in SampleSet}

\* C14: feature_stats fails with the not-splittable error when the feature has
\* fewer than 2 unique values among the samples of parent_mask, the empty
\* sample set included, and succeeds with at least one threshold when it has
\* 2 or more.
C14_SplittableIffTwoValues ==
    (KnownFeature /\ manual_request.op = "feature_stats"
       /\ SampleSet \subseteq ManualIndex)
    => IF Cardinality(NodeValues) < 2
       THEN /\ manual_response.status_code = 400
            /\ manual_response.detail = "has only one unique value, cannot split"
       ELSE /\ manual_response.status_code = 200
            /\ Len(manual_response.body.thresholds) >= 1

\* C16: a parent_mask holding an index outside [0, n_rows) is rejected by
\* node_stats and feature_stats with an error instead of being used to select
\* rows: the request is not answered with statistics.
C16_OutOfRangeMaskRejected ==
    (KnownFeature /\ ~(SampleSet \subseteq ManualIndex))
    => manual_response.status_code # 200

\* C17: node_stats called with an empty parent_mask answers with parent, left
\* and right statistics of 0 samples and impurity 0.0, and with
\* weighted_impurity and information_gain both 0.0.
C17_EmptyNodeStatistics ==
    (KnownFeature /\ manual_request.op = "node_stats"
       /\ manual_request.parent_samples_mask = ListMask(<<>>))
    => /\ manual_response.status_code = 200
       /\ \A part \in {"parent_stats", "left_stats", "right_stats"} :
             /\ manual_response.body.split_stats[part].samples = 0
             /\ manual_response.body.split_stats[part].impurity = Whole(0)
       /\ manual_response.body.split_stats.weighted_impurity = Whole(0)
       /\ manual_response.body.split_stats.information_gain = Whole(0)

\* a feature_stats request for a known feature on rows of X that hold at
\* least two values of it
SplittableRequest ==
    /\ KnownFeature
    /\ manual_request.op = "feature_stats"
    /\ SampleSet \subseteq ManualIndex
    /\ Cardinality(NodeValues) >= 2

\* the candidate midpoints of the request's sample set
Candidates == Midpoints(SortedInts(NodeValues))

Thresholds(list) == [k \in DOMAIN list |-> list[k].threshold]

\* the position, from 0, of the first entry of highest information_gain
FirstBest(list) ==
    (CHOOSE i \in DOMAIN list :
        /\ \A j \in DOMAIN list :
              RatLeq(list[j].information_gain, list[i].information_gain)
        /\ \A j \in 1..(i - 1) :
              RatLess(list[j].information_gain, list[i].information_gain)) - 1

\* C18: when the candidates do not exceed max_thresholds, feature_stats returns
\* exactly unique-1 thresholds, the midpoints of consecutive sorted unique
\* values of the node's samples, in ascending order.
C18_MidpointsReturned ==
    (SplittableRequest /\ Len(Candidates) <= manual_request.max_thresholds)
    => /\ manual_response.status_code = 200
       /\ Thresholds(manual_response.body.thresholds) = Candidates

\* C19: with more candidates than max_thresholds = m, feature_stats returns at
\* most m thresholds, among them the smallest and the largest candidate
\* midpoint; returned_count is the length of the list and best_threshold is
\* one of the thresholds returned.
C19_PercentileSample ==
    (SplittableRequest /\ Len(Candidates) > manual_request.max_thresholds)
    => /\ manual_response.status_code = 200
       /\ LET body == manual_response.body
              returned == Thresholds(body.thresholds)
          IN /\ Len(returned) <= manual_request.max_thresholds
             /\ Candidates[1] \in Range(returned)
             /\ Candidates[Len(Candidates)] \in Range(returned)
             /\ body.returned_threshold_count = Len(returned)
             /\ body.best_threshold \in Range(returned)

\* C20: best_threshold is the returned threshold of highest information_gain,
\* the first in ascending threshold order among equals, and
\* best_threshold_index is its position in the returned list.
C20_FirstBestThreshold ==
    SplittableRequest
    => /\ manual_response.status_code = 200
       /\ LET body == manual_response.body IN
          /\ body.best_threshold_index = FirstBest(body.thresholds)
          /\ body.best_threshold
                = body.thresholds[body.best_threshold_index + 1].threshold
          /\ \A k \in 1..(Len(body.thresholds) - 1) :
                RatLess(body.thresholds[k].threshold, body.thresholds[k + 1].threshold)

\* What calculate_feature_statistics has computed when it reaches the
\* histogram: the thresholds are the candidate midpoints, or at most
\* max_thresholds values from the smallest to the largest of them, ascending,
\* and best_idx is the first entry of highest gain.
LocalsBeforeHistogram ==
    SplittableRequest
    => LET list == manual_locals.threshold_stats_list
           returned == Thresholds(list)
       IN /\ Len(Candidates) <= manual_request.max_thresholds
                => returned = Candidates
          /\ Len(Candidates) > manual_request.max_thresholds
                => /\ Len(returned) <= manual_request.max_thresholds
                   /\ returned[1] = Candidates[1]
                   /\ returned[Len(returned)] = Candidates[Len(Candidates)]
          /\ \A k \in 1..(Len(returned) - 1) : RatLess(returned[k], returned[k + 1])
          /\ manual_locals.best_idx = FirstBest(list)
          /\ manual_locals.best_threshold = returned[manual_locals.best_idx + 1]

\* two entries of the list tie for the highest gain
LocalsTie ==
    /\ SplittableRequest
    /\ \E j \in DOMAIN manual_locals.threshold_stats_list :
          /\ j # manual_locals.best_idx + 1
          /\ manual_locals.threshold_stats_list[j].information_gain
                = manual_locals.threshold_stats_list[manual_locals.best_idx + 1].information_gain
          /\ RatLess(Whole(0), manual_locals.threshold_stats_list[j].information_gain)

\* the candidates are sampled by percentile
LocalsSampled ==
    /\ SplittableRequest
    /\ Len(Candidates) > manual_request.max_thresholds

\* the identities of one SplitStatistics over a non-empty parent
SplitIdentities(st) ==
    LET n == st.parent_stats.samples IN
    /\ st.left_stats.samples + st.right_stats.samples = n
    /\ n > 0 =>
        /\ st.weighted_impurity =
              RatAdd(RatMul(Rat(st.left_stats.samples, n), st.left_stats.impurity),
                     RatMul(Rat(st.right_stats.samples, n), st.right_stats.impurity))
        /\ st.information_gain =
              RatSub(st.parent_stats.impurity, st.weighted_impurity)

\* the SplitStatistics a request was answered with
ReturnedSplitStatistics ==
    IF manual_request = NoneValue \/ manual_response.status_code # 200 THEN {}
    ELSE IF manual_request.op = "node_stats" THEN {manual_response.body.split_stats}
    ELSE {manual_response.body.thresholds[k].split_stats :
            k \in DOMAIN manual_response.body.thresholds}

\* C21: every SplitStatistics returned by node_stats or feature_stats has
\* left.samples + right.samples = parent.samples, weighted_impurity =
\* (n_left/n_parent)*left.impurity + (n_right/n_parent)*right.impurity and
\* information_gain = parent.impurity - weighted_impurity, unclamped. The same
\* holds of the entries feature_stats has computed when it builds the histogram.
C21_SplitIdentities ==
    /\ \A st \in ReturnedSplitStatistics : SplitIdentities(st)
    /\ manual_locals # NoneValue =>
          \A k \in DOMAIN manual_locals.threshold_stats_list :
             SplitIdentities(manual_locals.threshold_stats_list[k].split_stats)

\* node_stats answered for a node of mixed classes
C21_Witness ==
    /\ manual_request # NoneValue
    /\ manual_request.op = "node_stats"
    /\ manual_response.status_code = 200
    /\ manual_response.body.split_stats.parent_stats.samples >= 2
    /\ RatLess(Whole(0), manual_response.body.split_stats.parent_stats.impurity)

\* the count and probability maps of one NodeStatistics have an entry for
\* every class name, 0 for a class without samples
DenseDistribution(stats, class_names) ==
    /\ DOMAIN stats.class_distribution = DOMAIN class_names
    /\ DOMAIN stats.class_probabilities = DOMAIN class_names
    /\ \A k \in DOMAIN class_names :
          stats.class_distribution[k] = 0 => stats.class_probabilities[k] = Whole(0)

\* C23: class_distribution is dense: for every label set, the empty one and
\* those lacking a class included, the count map and the probability map
\* have an entry for every declared class name.
C23_DenseDistribution ==
    \A st \in ReturnedSplitStatistics :
       \A part \in {"parent_stats", "left_stats", "right_stats"} :
          DenseDistribution(st[part], dataset_info.class_names)

\* C24: the histogram built for a node has a count vector for each class of
\* the global class set, the classes without samples at the node included
\* (here: the histogram the manual statistics engine returns for a node).
C24_HistogramCountsEveryClass ==
    (manual_request # NoneValue /\ manual_response.status_code = 200
       /\ manual_response.body.histogram_data.total_samples > 0)
    => DOMAIN manual_response.body.histogram_data.counts_by_class
         = Range(dataset_info.y)

\* the feature value of the row a mask index selects
ValueAt(i) ==
    dataset_info.X[RowOf(i, ManualRows)]
                  [Index(dataset_info.feature_names, manual_request.feature)]

SessionIndex == 0..(SessionRows - 1)

\* train_test_split(X, y, test_size, random_state) followed by
\* np.vstack([X_train, X_test]): the rows in an order fixed by their number
\* and the seed (here: rotated by the seed)
SplitOrder(n, random_state) == [i \in 0..(n - 1) |-> (i + random_state) % n]

\* datasets a client sends: column "a" takes two values, column "b" one
SessionDataset(y, random_state) ==
    [X |-> [i \in SessionIndex |-> [c \in FeatureColumns |-> IF c = 0 THEN i \div 2 ELSE 0]],
     y |-> y,
     feature_names |-> <<"a", "b">>,
     target_names |-> <<"c0", "c1">>,
     random_state |-> random_state]

BuildDataset == SessionDataset([i \in SessionIndex |-> i % 2], 0)

SessionDatasets ==
    {BuildDataset, SessionDataset([i \in SessionIndex |-> IF i = 0 THEN 1 ELSE 0], 1)}

\* cache_key = str(dataset.model_dump()): the fields in declared order
DatasetKey(dataset) ==
    <<dataset.X, dataset.y, dataset.feature_names, dataset.target_names,
      dataset.random_state>>

\* cached_data: X_full, y_full, feature_names, class_names
PrepareDataset(dataset) ==
    LET n == Cardinality(DOMAIN dataset.X)
        order == SplitOrder(n, dataset.random_state)
    IN [X |-> [i \in DOMAIN dataset.X |-> dataset.X[order[i]]],
        y |-> [i \in DOMAIN dataset.X |-> dataset.y[order[i]]],
        feature_names |-> dataset.feature_names,
        class_names |-> dataset.target_names]

\* a loader that answers a hit with the entry stored last
load_dataset_latest(c, dataset) ==
    IF \E k \in DOMAIN c : c[k].key = DatasetKey(dataset)
    THEN [info |-> c[Len(c)].info, cache |-> c]
    ELSE [info |-> PrepareDataset(dataset),
          cache |-> Append(c, [key |-> DatasetKey(dataset),
                               info |-> PrepareDataset(dataset)])]

\* _load_dataset: the cached entry of the key, or a new entry stored under it
load_dataset(c, dataset) ==
    IF \E k \in DOMAIN c : c[k].key = DatasetKey(dataset)
    THEN [info |-> c[CHOOSE k \in DOMAIN c : c[k].key = DatasetKey(dataset)].info,
          cache |-> c]
    ELSE [info |-> PrepareDataset(dataset),
          cache |-> Append(c, [key |-> DatasetKey(dataset),
                               info |-> PrepareDataset(dataset)])]

SessionThresholds == {Rat(k, 2) : k \in -1..1}

\* the masks node_stats has returned so far
ReturnedMasks ==
    UNION {{ListMask(calls[k].response.body.left_samples_mask),
            ListMask(calls[k].response.body.right_samples_mask)} :
           k \in {j \in DOMAIN calls : /\ calls[j].request.op = "node_stats"
                                       /\ calls[j].response.status_code = 200}}

\* the frontier with node k replaced by its two children
SplitFrontier(f, k, left, right) ==
    SubSeq(f, 1, k - 1) \o <<ListMask(left), ListMask(right)>> \o SubSeq(f, k + 1, Len(f))

SessionInit ==
    /\ dataset_cache = <<>>
    /\ calls = <<>>
    /\ frontier = <<RootMask>>
    /\ dataset_info = NoneValue
    /\ manual_request = NoneValue
    /\ manual_response = NoneValue
    /\ manual_locals = NoneValue
    /\ enabled = TRUE
    /\ max_size = MaxCacheSize
    /\ cache = <<>>
    /\ clock = 1
    /\ last = NoCall
    /\ prev = NoCall
    /\ run = <<>>
    /\ TrainIdle
    /\ KeyIdle
    /\ TreeIdle

\* POST /manual/node-stats. The parent mask is null or a mask an earlier
\* answer returned. With build the client splits the frontier node of that
\* mask of the tree it is building on BuildDataset: answered with statistics,
\* the node gives way to its two children.
SessionNodeStats(dataset, feature, threshold, mask, build) ==
    /\ Len(calls) < SessionCalls
    /\ mask \in {RootMask} \cup ReturnedMasks
    /\ build => /\ dataset = BuildDataset
                /\ \E k \in DOMAIN frontier : frontier[k] = mask
    /\ LET loaded == load_dataset(dataset_cache, dataset)
           request == [op |-> "node_stats", dataset |-> dataset, feature |-> feature,
                       threshold |-> threshold, parent_samples_mask |-> mask,
                       criterion |-> "gini"]
           answer == Answer(calculate_node_statistics(loaded.info, request))
       IN /\ dataset_cache' = loaded.cache
          /\ calls' = Append(calls, [request |-> request, response |-> answer])
          /\ frontier' =
                IF build /\ answer.status_code = 200
                THEN SplitFrontier(frontier,
                                   CHOOSE k \in DOMAIN frontier : frontier[k] = mask,
                                   answer.body.left_samples_mask,
                                   answer.body.right_samples_mask)
                ELSE frontier
    /\ UNCHANGED <<dataset_info, manual_request, manual_response, manual_locals>>

\* POST /manual/feature-stats on the root of a dataset
SessionFeatureStats(dataset, feature) ==
    /\ Len(calls) < SessionCalls
    /\ LET loaded == load_dataset(dataset_cache, dataset)
           request == [op |-> "feature_stats", dataset |-> dataset, feature |-> feature,
                       parent_samples_mask |-> RootMask, criterion |-> "gini",
                       max_thresholds |-> MinMaxThresholds]
           answer == Answer(calculate_feature_statistics(loaded.info, request))
       IN /\ dataset_cache' = loaded.cache
          /\ calls' = Append(calls, [request |-> request, response |-> answer])
    /\ UNCHANGED <<frontier, dataset_info, manual_request, manual_response,
                   manual_locals>>

NextSession ==
    \/ \E dataset \in SessionDatasets, feature \in RequestFeatures,
          threshold \in SessionThresholds,
          mask \in {RootMask} \cup ReturnedMasks, build \in BOOLEAN :
          SessionNodeStats(dataset, feature, threshold, mask, build)
          /\ UNCHANGED <<cacheVars, trainVars, keyVars, treeVars>>
    \/ \E dataset \in SessionDatasets, feature \in RequestFeatures :
          SessionFeatureStats(dataset, feature)
          /\ UNCHANGED <<cacheVars, trainVars, keyVars, treeVars>>
    \/ CacheClear /\ UNCHANGED <<trainVars, keyVars, treeVars, manualVars>>

SpecSession == SessionInit /\ [][NextSession]_vars

\* the rows a frontier node holds
FrontierRows(mask) == IF mask = RootMask THEN SessionIndex ELSE Range(mask.list)

\* C22: node_stats is idempotent and deterministic: two calls with the same
\* dataset, parent mask, feature, threshold and criterion are answered alike,
\* with the same SplitStatistics and the same left and right masks, whatever
\* other requests and cache operations came in between.
C22_SameArgumentsSameAnswer ==
    \A i, j \in DOMAIN calls :
       (calls[i].request.op = "node_stats" /\ calls[i].request = calls[j].request)
       => calls[i].response = calls[j].response

\* the same request answered with statistics twice, another dataset having
\* been loaded in between
C22_Witness ==
    /\ Len(calls) >= 3
    /\ calls[1].request.op = "node_stats"
    /\ calls[1].request = calls[3].request
    /\ calls[2].request.dataset # calls[1].request.dataset
    /\ calls[1].response.status_code = 200
    /\ calls[2].response.status_code = 200
    /\ calls[2].response # calls[1].response
    /\ Len(dataset_cache) = 2

\* C30: after node_stats calls of which the first has a null parent mask and
\* every later one a mask an earlier call returned, the masks of the nodes
\* not yet split are pairwise disjoint and hold between them every row.
C30_FrontierPartitionsRows ==
    /\ \A i, j \in DOMAIN frontier :
          i # j => FrontierRows(frontier[i]) \cap FrontierRows(frontier[j]) = {}
    /\ UNION {FrontierRows(frontier[k]) : k \in DOMAIN frontier} = SessionIndex

\* the root was split and then one of its children
C30_Witness ==
    /\ Len(frontier) = 3
    /\ \E k \in DOMAIN frontier : FrontierRows(frontier[k]) = SessionIndex

\* ------------------------------------------- generate_model_key alone
KeyInit ==
    /\ kin \in KeyInputs \X KeyInputs
    /\ kout = <<>>
    /\ enabled = TRUE
    /\ max_size = MaxCacheSize
    /\ cache = <<>>
    /\ clock = 1
    /\ last = NoCall
    /\ prev = NoCall
    /\ run = <<>>
    /\ TrainIdle
    /\ TreeIdle
    /\ ManualIdle

\* two calls of cache_service.generate_model_key(params, dataset)
GenerateKeys ==
    /\ kout = <<>>
    /\ kout' = <<generate_model_key(kin[1].params, kin[1].dataset),
                 generate_model_key(kin[2].params, kin[2].dataset)>>
    /\ UNCHANGED <<kin, cacheVars, trainVars, treeVars, manualVars>>

NextKey == GenerateKeys

SpecKey == KeyInit /\ [][NextKey]_vars

\* C6: two (params, dataset) inputs holding the same fields with the same
\* values, in whatever field order at whatever nesting level, get the same key.
C6_KeyOrderIndependent ==
    (kout # <<>> /\ SameLogical(kin[1], kin[2])) => kout[1] = kout[2]

C6_Witness ==
    /\ kout # <<>>
    /\ SameLogical(kin[1], kin[2])
    /\ kin[1].params # kin[2].params
    /\ kin[1].dataset # kin[2].dataset
    /\ ~IsAtom(kin[1].dataset)
    /\ \E i \in DOMAIN kin[1].dataset.obj :
          /\ kin[1].dataset.obj[i][1] = "info"
          /\ \E j \in DOMAIN kin[2].dataset.obj :
                /\ kin[2].dataset.obj[j][1] = "info"
                /\ kin[1].dataset.obj[i][2] # kin[2].dataset.obj[j][2]

====
